---- MODULE Spec2Model ----
(***************************************************************************)
(* Model of motion_capture_tracking_node.cpp: the configuration build that *)
(* turns the flat dotted-key parameter overrides into dynamics, marker and *)
(* rigid-body collections, and the frame loop that publishes the marker    *)
(* cloud and the transform batch once per captured frame.                  *)
(*                                                                         *)
(* std::string values are sequences of one-character strings, positions    *)
(* are 0-based as in C++ and shifted by one where a TLA+ sequence is       *)
(* indexed.  A double is modelled by the integer it holds; an int64_t is a *)
(* tuple of four 16-bit limbs (most significant first, two's complement),  *)
(* so that values outside the 32-bit range exist in the model.             *)
(***************************************************************************)
EXTENDS Integers, Sequences, FiniteSets, TLC

VARIABLES
    pc,                      \* position of main()
    parameter_overrides,     \* key -> ParameterValue
    dynamicsConfigurations,  \* std::vector<DynamicsConfiguration>
    dynamics_name_to_index,  \* std::map<std::string, size_t>
    i,                       \* size_t i of main(), line 100
    markerConfigurations,    \* std::vector<MarkerConfiguration>
    marker_name_to_index,    \* std::map<std::string, size_t>
    objects,                 \* std::vector<Object> handed to the tracker
    trackerObjects,          \* tracker.objects(): per-body fit state
    ok,                      \* rclcpp::ok()
    frameId,                 \* loop counter
    now,                     \* real time, read by both clocks
    mocapPointCloud,         \* mocap->pointCloud() of the current frame
    mocapRigidBodies,        \* mocap->rigidBodies() of the current frame
    chrono_now,              \* monotonic sample of the cycle
    time,                    \* wall-clock sample of the cycle
    timeSamples,             \* frameIds at which `time` was assigned so far
    msgPointCloud,           \* the reused PointCloud2 message
    markers,                 \* the reused pcl cloud fed to the tracker
    trackerInput,            \* the cloud the tracker received in its last update
    transforms,              \* the reused transform vector
    published,               \* marker-cloud messages published in this cycle
    sent,                    \* transform batches sent in this cycle
    warnings,                \* staleness warnings logged in this cycle
    pattern,                 \* argument of a stand-alone extract_names call
    order,                   \* iteration order of that call
    names,                   \* its result
    param_value,             \* argument of a stand-alone get_vec call
    vec                      \* its result

vars == <<pc, parameter_overrides, dynamicsConfigurations, dynamics_name_to_index,
          i, markerConfigurations, marker_name_to_index, objects, trackerObjects,
          ok, frameId, now, mocapPointCloud, mocapRigidBodies, chrono_now, time,
          timeSamples, msgPointCloud, markers, trackerInput, transforms,
          published, sent, warnings, pattern, order, names, param_value, vec>>

configVars == <<dynamicsConfigurations, dynamics_name_to_index, i,
                markerConfigurations, marker_name_to_index, objects>>
loopVars == <<trackerObjects, ok, frameId, now, mocapPointCloud, mocapRigidBodies,
              chrono_now, time, timeSamples, msgPointCloud, markers, trackerInput,
              transforms, published, sent, warnings>>
callVars == <<pattern, order, names, param_value, vec>>

----------------------------------------------------------------------------
(* Bounds of the model *)

MaxFrames == 2          \* cycles of the frame loop explored
MaxClock == 1           \* ticks of real time explored
MaxPoints == 1          \* rows of a captured point cloud
MaxKeyLen == 3          \* key length in a stand-alone extract_names call
MaxPatLen == 2          \* pattern length in a stand-alone extract_names call
MaxKeys == 2            \* keys in the map of a stand-alone extract_names call
MaxVecLen == 2          \* array length in a stand-alone get_vec call

----------------------------------------------------------------------------
(* Strings *)

DOT == <<".">>

S_dynamics_configurations ==
    <<"d", "y", "n", "a", "m", "i", "c", "s", "_", "c", "o", "n", "f", "i", "g", "u", "r", "a", "t", "i", "o", "n", "s">>
S_marker_configurations ==
    <<"m", "a", "r", "k", "e", "r", "_", "c", "o", "n", "f", "i", "g", "u", "r", "a", "t", "i", "o", "n", "s">>
S_rigid_bodies ==
    <<"r", "i", "g", "i", "d", "_", "b", "o", "d", "i", "e", "s">>
S_max_velocity ==
    <<"m", "a", "x", "_", "v", "e", "l", "o", "c", "i", "t", "y">>
S_max_angular_velocity ==
    <<"m", "a", "x", "_", "a", "n", "g", "u", "l", "a", "r", "_", "v", "e", "l", "o", "c", "i", "t", "y">>
S_max_roll ==
    <<"m", "a", "x", "_", "r", "o", "l", "l">>
S_max_pitch ==
    <<"m", "a", "x", "_", "p", "i", "t", "c", "h">>
S_max_fitness_score ==
    <<"m", "a", "x", "_", "f", "i", "t", "n", "e", "s", "s", "_", "s", "c", "o", "r", "e">>
S_offset ==
    <<"o", "f", "f", "s", "e", "t">>
S_points ==
    <<"p", "o", "i", "n", "t", "s">>
S_initial_position ==
    <<"i", "n", "i", "t", "i", "a", "l", "_", "p", "o", "s", "i", "t", "i", "o", "n">>
S_marker ==
    <<"m", "a", "r", "k", "e", "r">>
S_dynamics ==
    <<"d", "y", "n", "a", "m", "i", "c", "s">>

\* the characters of the keys, in ASCII order
Chars ==
    <<".", "0", "1", "2", "3", "4", "5", "6", "7", "8", "9", "_", "a", "b", "c",
      "d", "e", "f", "g", "h", "i", "j", "k", "l", "m", "n", "o", "p", "q", "r",
      "s", "t", "u", "v", "w", "x", "y", "z">>

Code(c) == CHOOSE k \in 1..Len(Chars) : Chars[k] = c

\* std::string::operator< : lexicographic comparison by character code
StrLess(a, b) ==
    LET n    == IF Len(a) < Len(b) THEN Len(a) ELSE Len(b)
        diff == {k \in 1..n : a[k] # b[k]}
    IN  IF diff = {} THEN Len(a) < Len(b)
        ELSE LET k == CHOOSE d \in diff : \A e \in diff : d <= e
             IN  Code(a[k]) < Code(b[k])

\* iteration order of a std::map / std::set of strings: ascending keys
RECURSIVE SortedSeq(_)
SortedSeq(S) ==
    IF S = {} THEN <<>>
    ELSE LET x    == CHOOSE y \in S : TRUE
             rest == SortedSeq(S \ {x})
             less == Cardinality({k \in 1..Len(rest) : StrLess(rest[k], x)})
         IN  SubSeq(rest, 1, less) \o <<x>> \o SubSeq(rest, less + 1, Len(rest))

Range(s) == {s[k] : k \in 1..Len(s)}

\* std::string::npos: larger than the size of any string
npos == 2147483647

\* std::string::find(pat, pos): first position >= pos where pat occurs
find(s, pat, pos) ==
    LET hits == {k \in pos..(Len(s) - Len(pat)) :
                    \A j \in 1..Len(pat) : s[k + j] = pat[j]}
    IN  IF hits = {} THEN npos
        ELSE CHOOSE k \in hits : \A h \in hits : k <= h

\* std::string::substr(pos, count): throws std::out_of_range when pos > size()
substr_throws(s, pos) == pos > Len(s)

substr(s, pos, count) ==
    LET last == IF count > Len(s) - pos THEN Len(s) ELSE pos + count
    IN  SubSeq(s, pos + 1, last)

----------------------------------------------------------------------------
(* extract_names, lines 21-36 *)

\* the loop body of extract_names for one key: the token it inserts
extract_names_token(key, pat) ==
    LET start == Len(pat) + 1
        end   == find(key, DOT, start)     \* npos - start stays above any size
    IN  substr(key, start, end - start)

\* (variant: a key matches only when the prefix is followed by a dot)
extract_names_matches_dotted(key, pat) == find(key, pat \o DOT, 0) = 0

\* line 28: the test that selects a key
extract_names_matches(key, pat) == find(key, pat, 0) = 0

\* keys: the keys of the map in iteration order.  The result is the set
\* built by the loop, or an exception escaping from substr.
RECURSIVE extract_names_loop(_, _, _)
extract_names_loop(keys, pat, result) ==
    IF keys = <<>> THEN [exc |-> FALSE, val |-> result]
    ELSE IF extract_names_matches(Head(keys), pat)
         THEN IF substr_throws(Head(keys), Len(pat) + 1)
              THEN [exc |-> TRUE, val |-> {}]
              ELSE extract_names_loop(Tail(keys), pat,
                       result \cup {extract_names_token(Head(keys), pat)})
         ELSE extract_names_loop(Tail(keys), pat, result)

extract_names(keys, pat) == extract_names_loop(keys, pat, {})

----------------------------------------------------------------------------
(* get_vec, lines 38-49 *)

Limb == 65536

\* the int64_t holding the (32-bit) integer n
Int64OfInt(n) ==
    LET ext == IF n < 0 THEN Limb - 1 ELSE 0
    IN  <<ext, ext, (n \div Limb) % Limb, n % Limb>>

\* `int v = <int64_t>`: the low 32 bits, read as a signed 32-bit integer
Int64ToInt(x) ==
    (IF x[3] >= Limb \div 2 THEN x[3] - Limb ELSE x[3]) * Limb + x[4]

\* a double d and an int64_t x hold the same number
SameNumber(d, x) == Int64OfInt(d) = x

get_vec(pv) ==
    IF pv.type = "PARAMETER_INTEGER_ARRAY"
    THEN [exc |-> FALSE, val |-> [k \in 1..Len(pv.val) |-> Int64ToInt(pv.val[k])]]
    ELSE IF pv.type = "PARAMETER_DOUBLE_ARRAY"
         THEN [exc |-> FALSE, val |-> pv.val]
         ELSE [exc |-> TRUE, val |-> <<>>]    \* ParameterTypeException

----------------------------------------------------------------------------
(* Parameter values and the accessors main() uses on them *)

DoubleArray(s) == [type |-> "PARAMETER_DOUBLE_ARRAY", val |-> s]
IntegerArray(s) == [type |-> "PARAMETER_INTEGER_ARRAY",
                    val |-> [k \in 1..Len(s) |-> Int64OfInt(s[k])]]
Double(d) == [type |-> "PARAMETER_DOUBLE", val |-> d]
Integer(n) == [type |-> "PARAMETER_INTEGER", val |-> n]
String(s) == [type |-> "PARAMETER_STRING", val |-> s]

Key(prefix, name, field) == prefix \o DOT \o name \o DOT \o field

\* parameter_overrides.at(key) followed by get_vec: throws when the key is
\* missing or the value is not an array
vec_at(ov, key) ==
    IF key \in DOMAIN ov THEN get_vec(ov[key]) ELSE [exc |-> TRUE, val |-> <<>>]

\* parameter_overrides.at(key).get<double>()
double_at_throws(ov, key) ==
    key \notin DOMAIN ov \/ ov[key].type # "PARAMETER_DOUBLE"

\* parameter_overrides.at(key).get<std::string>()
string_at_throws(ov, key) ==
    key \notin DOMAIN ov \/ ov[key].type # "PARAMETER_STRING"

\* std::vector::at(k) throws when k >= size()
vector_at_throws(v, k) == k >= Len(v)

\* std::vector::operator[](k): reading past the end is undefined; g is the
\* value such a read produces when the program survives it
elem(v, k, g) == IF k < Len(v) THEN v[k + 1] ELSE g

\* conversion double -> float (24-bit significand, round to nearest even)
RECURSIVE FloatQuantum(_, _)
FloatQuantum(a, q) == IF a \div q < 16777216 THEN q ELSE FloatQuantum(a, 2 * q)

ToFloat(d) ==
    LET a   == IF d < 0 THEN 0 - d ELSE d
        q   == FloatQuantum(a, 1)
        lo  == (a \div q) * q
        rem == a - lo
        r   == IF 2 * rem < q THEN lo
               ELSE IF 2 * rem > q THEN lo + q
               ELSE IF (a \div q) % 2 = 0 THEN lo ELSE lo + q
    IN  IF d < 0 THEN 0 - r ELSE r

\* values an out-of-bounds read may produce
Garbage == {7}

----------------------------------------------------------------------------
(* Dynamics configuration build, lines 97-115 *)

DynamicsThrows(ov, name) ==
    LET max_vel == vec_at(ov, Key(S_dynamics_configurations, name, S_max_velocity))
        max_ang == vec_at(ov, Key(S_dynamics_configurations, name, S_max_angular_velocity))
    IN  \/ max_vel.exc
        \/ vector_at_throws(max_vel.val, 0)
        \/ vector_at_throws(max_vel.val, 1)
        \/ vector_at_throws(max_vel.val, 2)
        \/ max_ang.exc
        \/ vector_at_throws(max_ang.val, 0)
        \/ vector_at_throws(max_ang.val, 1)
        \/ vector_at_throws(max_ang.val, 2)
        \/ double_at_throws(ov, Key(S_dynamics_configurations, name, S_max_roll))
        \/ double_at_throws(ov, Key(S_dynamics_configurations, name, S_max_pitch))
        \/ double_at_throws(ov, Key(S_dynamics_configurations, name, S_max_fitness_score))

DynamicsConfiguration(ov, name) ==
    LET max_vel == vec_at(ov, Key(S_dynamics_configurations, name, S_max_velocity)).val
        max_ang == vec_at(ov, Key(S_dynamics_configurations, name, S_max_angular_velocity)).val
    IN  [maxXVelocity    |-> max_vel[1],
         maxYVelocity    |-> max_vel[2],
         maxZVelocity    |-> max_vel[3],
         maxRollRate     |-> max_ang[1],
         maxPitchRate    |-> max_ang[2],
         maxYawRate      |-> max_ang[3],
         maxRoll         |-> ov[Key(S_dynamics_configurations, name, S_max_roll)].val,
         maxPitch        |-> ov[Key(S_dynamics_configurations, name, S_max_pitch)].val,
         maxFitnessScore |-> ov[Key(S_dynamics_configurations, name, S_max_fitness_score)].val]

\* (variant: every profile is written to the first slot)
DynamicsSlot_First(idx) == 0

\* the slot of dynamicsConfigurations a profile is written to when the loop
\* counter is idx
DynamicsSlot(idx) == idx

\* the loop of lines 101-115 over the remaining names; st is
\* [exc, vec (dynamicsConfigurations), map (dynamics_name_to_index), i]
RECURSIVE DynamicsLoop(_, _, _)
DynamicsLoop(ov, rest, st) ==
    IF rest = <<>> \/ st.exc THEN st
    ELSE LET name == Head(rest)
         IN  IF DynamicsThrows(ov, name)
             THEN [st EXCEPT !.exc = TRUE]
             ELSE DynamicsLoop(ov, Tail(rest),
                      [exc |-> FALSE,
                       vec |-> [st.vec EXCEPT ![DynamicsSlot(st.i) + 1] =
                                   DynamicsConfiguration(ov, name)],
                       map |-> (name :> st.i) @@ st.map,
                       i   |-> st.i + 1])

\* a value-initialised DynamicsConfiguration
DynamicsZero ==
    [maxXVelocity |-> 0, maxYVelocity |-> 0, maxZVelocity |-> 0,
     maxRollRate |-> 0, maxPitchRate |-> 0, maxYawRate |-> 0,
     maxRoll |-> 0, maxPitch |-> 0, maxFitnessScore |-> 0]

EmptyMap == [x \in {} |-> 0]

DynamicsBuild(ov) ==
    LET dynamics_config_names ==
            extract_names(SortedSeq(DOMAIN ov), S_dynamics_configurations)
    IN  IF dynamics_config_names.exc
        THEN [exc |-> TRUE, vec |-> <<>>, map |-> EmptyMap, i |-> 0]
        ELSE DynamicsLoop(ov, SortedSeq(dynamics_config_names.val),
                 [exc |-> FALSE,
                  vec |-> [k \in 1..Cardinality(dynamics_config_names.val) |-> DynamicsZero],
                  map |-> EmptyMap,
                  i   |-> 0])

----------------------------------------------------------------------------
(* Marker configuration build, lines 117-133 *)

PointsPrefix(name) == S_marker_configurations \o DOT \o name \o DOT \o S_points

\* the keys the inner loop of lines 124-131 takes a point from, in map order
PointKeys(keys, name) ==
    SelectSeq(keys, LAMBDA key : find(key, PointsPrefix(name), 0) = 0)

\* pcl::PointXYZ(points[0] + offset[0], points[1] + offset[1], points[2] + offset[2])
TemplatePoint(points, offset, g) ==
    <<ToFloat(elem(points, 0, g) + elem(offset, 0, g)),
      ToFloat(elem(points, 1, g) + elem(offset, 1, g)),
      ToFloat(elem(points, 2, g) + elem(offset, 2, g))>>

MarkerThrows(ov, keys, name) ==
    \/ vec_at(ov, Key(S_marker_configurations, name, S_offset)).exc
    \/ \E key \in Range(PointKeys(keys, name)) : get_vec(ov[key]).exc

\* operator[] is used past the end of offset or of a points array
MarkerUndefined(ov, keys, name) ==
    LET pkeys == PointKeys(keys, name)
    IN  /\ pkeys # <<>>
        /\ \/ Len(vec_at(ov, Key(S_marker_configurations, name, S_offset)).val) < 3
           \/ \E key \in Range(pkeys) : Len(get_vec(ov[key]).val) < 3

MarkerConfiguration(ov, keys, name, g) ==
    LET offset == vec_at(ov, Key(S_marker_configurations, name, S_offset)).val
        pkeys  == PointKeys(keys, name)
    IN  [k \in 1..Len(pkeys) |-> TemplatePoint(get_vec(ov[pkeys[k]]).val, offset, g)]

\* the value line 132 records for a template pushed at position pos while
\* the counter of the dynamics loop stands at idx
MarkerIndex(idx, pos) == idx

\* the loop of lines 120-133; keys are the keys of the map in iteration
\* order, st is [exc, ub, vec, map]
RECURSIVE MarkerLoop(_, _, _, _, _, _)
MarkerLoop(ov, keys, rest, idx, g, st) ==
    IF rest = <<>> \/ st.exc THEN st
    ELSE LET name == Head(rest)
         IN  IF MarkerThrows(ov, keys, name)
             THEN [st EXCEPT !.exc = TRUE]
             ELSE MarkerLoop(ov, keys, Tail(rest), idx, g,
                      [exc |-> FALSE,
                       ub  |-> st.ub \/ MarkerUndefined(ov, keys, name),
                       vec |-> Append(st.vec, MarkerConfiguration(ov, keys, name, g)),
                       map |-> (name :> MarkerIndex(idx, Len(st.vec))) @@ st.map])

MarkerBuild(ov, idx, g) ==
    LET keys == SortedSeq(DOMAIN ov)
        marker_config_names == extract_names(keys, S_marker_configurations)
    IN  IF marker_config_names.exc
        THEN [exc |-> TRUE, ub |-> FALSE, vec |-> <<>>, map |-> EmptyMap]
        ELSE MarkerLoop(ov, keys, SortedSeq(marker_config_names.val), idx, g,
                 [exc |-> FALSE, ub |-> FALSE, vec |-> <<>>, map |-> EmptyMap])

----------------------------------------------------------------------------
(* Rigid body construction, lines 135-146 *)

BodyThrows(ov, name, mmap, dmap) ==
    \/ vec_at(ov, Key(S_rigid_bodies, name, S_initial_position)).exc
    \/ string_at_throws(ov, Key(S_rigid_bodies, name, S_marker))
    \/ string_at_throws(ov, Key(S_rigid_bodies, name, S_dynamics))
    \/ ov[Key(S_rigid_bodies, name, S_marker)].val \notin DOMAIN mmap
    \/ ov[Key(S_rigid_bodies, name, S_dynamics)].val \notin DOMAIN dmap

BodyUndefined(ov, name) ==
    Len(vec_at(ov, Key(S_rigid_bodies, name, S_initial_position)).val) < 3

\* librigidbodytracker::Object(marker index, dynamics index, m, name)
Object(ov, name, mmap, dmap, g) ==
    LET pos == vec_at(ov, Key(S_rigid_bodies, name, S_initial_position)).val
    IN  [markerConfigurationIdx   |-> mmap[ov[Key(S_rigid_bodies, name, S_marker)].val],
         dynamicsConfigurationIdx |-> dmap[ov[Key(S_rigid_bodies, name, S_dynamics)].val],
         initialTransformation    |-> <<ToFloat(elem(pos, 0, g)),
                                        ToFloat(elem(pos, 1, g)),
                                        ToFloat(elem(pos, 2, g))>>,
         name                     |-> name]

\* the loop of lines 137-146; st is [exc, ub, vec]
RECURSIVE BodyLoop(_, _, _, _, _, _)
BodyLoop(ov, rest, mmap, dmap, g, st) ==
    IF rest = <<>> \/ st.exc THEN st
    ELSE LET name == Head(rest)
         IN  IF BodyThrows(ov, name, mmap, dmap)
             THEN [st EXCEPT !.exc = TRUE]
             ELSE BodyLoop(ov, Tail(rest), mmap, dmap, g,
                      [exc |-> FALSE,
                       ub  |-> st.ub \/ BodyUndefined(ov, name),
                       vec |-> Append(st.vec, Object(ov, name, mmap, dmap, g))])

BodyBuild(ov, mmap, dmap, g) ==
    LET rigid_body_names == extract_names(SortedSeq(DOMAIN ov), S_rigid_bodies)
    IN  IF rigid_body_names.exc
        THEN [exc |-> TRUE, ub |-> FALSE, vec |-> <<>>]
        ELSE BodyLoop(ov, SortedSeq(rigid_body_names.val), mmap, dmap, g,
                 [exc |-> FALSE, ub |-> FALSE, vec |-> <<>>])

----------------------------------------------------------------------------
(* Parameter overrides the node is started with *)

S_slow == <<"s", "l", "o", "w">>
S_fast == <<"f", "a", "s", "t">>
S_m1 == <<"m", "1">>
S_m2 == <<"m", "2">>
S_cf1 == <<"c", "f", "1">>
S_cf2 == <<"c", "f", "2">>
S_zz == <<"z", "z">>
S_type == <<"t", "y", "p", "e">>
S_vicon == <<"v", "i", "c", "o", "n">>
S_points_extra == <<"p", "o", "i", "n", "t", "s", "_", "e", "x", "t", "r", "a">>
S_rigid_bodies_enabled ==
    <<"r", "i", "g", "i", "d", "_", "b", "o", "d", "i", "e", "s", "_", "e", "n", "a", "b", "l", "e", "d">>

\* the limits of profile `slow` are 1.., those of `fast` 4..
DynamicsBase(name) == IF name = S_slow THEN 1 ELSE 4

DynamicsEntries(name) ==
    LET v == DynamicsBase(name)
    IN  (Key(S_dynamics_configurations, name, S_max_velocity) :> DoubleArray(<<v, v, v + 1>>))
     @@ (Key(S_dynamics_configurations, name, S_max_angular_velocity) :> IntegerArray(<<v + 1, v + 1, v + 2>>))
     @@ (Key(S_dynamics_configurations, name, S_max_roll) :> Double(v + 2))
     @@ (Key(S_dynamics_configurations, name, S_max_pitch) :> Double(v + 3))
     @@ (Key(S_dynamics_configurations, name, S_max_fitness_score) :> Double(v + 4))

\* template m1: offset (0,0,1), points (1,0,0) and (0,1,0);
\* template m2: offset (0,0,0), point (2,0,0)
MarkerEntries(name) ==
    IF name = S_m1
    THEN (Key(S_marker_configurations, name, S_offset) :> DoubleArray(<<0, 0, 1>>))
      @@ (Key(S_marker_configurations, name, S_points \o DOT \o <<"0">>) :> DoubleArray(<<1, 0, 0>>))
      @@ (Key(S_marker_configurations, name, S_points \o DOT \o <<"1">>) :> IntegerArray(<<0, 1, 0>>))
    ELSE (Key(S_marker_configurations, name, S_offset) :> IntegerArray(<<0, 0, 0>>))
      @@ (Key(S_marker_configurations, name, S_points \o DOT \o <<"0">>) :> DoubleArray(<<2, 0, 0>>))

BodyEntries(name, marker, dynamics) ==
       (Key(S_rigid_bodies, name, S_initial_position) :>
            IF name = S_cf1 THEN DoubleArray(<<1, 2, 3>>) ELSE IntegerArray(<<0 - 1, 0, 1>>))
    @@ (Key(S_rigid_bodies, name, S_marker) :> String(marker))
    @@ (Key(S_rigid_bodies, name, S_dynamics) :> String(dynamics))

\* union of maps with disjoint domains
RECURSIVE Merge(_)
Merge(F) ==
    IF F = {} THEN EmptyMap
    ELSE LET f == CHOOSE x \in F : TRUE
         IN  f @@ Merge(F \ {f})

\* bodies: a function body name -> <<marker name, dynamics name>>
Config(D, M, bodies) ==
       Merge({DynamicsEntries(d) : d \in D})
    @@ Merge({MarkerEntries(m) : m \in M})
    @@ Merge({BodyEntries(b, bodies[b][1], bodies[b][2]) : b \in DOMAIN bodies})

BodyChoices ==
    { S_cf1 :> <<S_m1, S_fast>>,
      S_cf1 :> <<S_m2, S_slow>>,
      (S_cf1 :> <<S_m1, S_fast>>) @@ (S_cf2 :> <<S_m2, S_slow>>) }

\* well-formed files, in which a reference may still name something undeclared
PlainConfigs ==
    {Config({}, {}, EmptyMap)}
    \cup {Config(D, M, b) : D \in SUBSET {S_slow, S_fast},
                            M \in {{}, {S_m1}, {S_m1, S_m2}},
                            b \in BodyChoices}

FullConfig ==
    Config({S_slow, S_fast}, {S_m1, S_m2}, S_cf1 :> <<S_m1, S_fast>>)

IsArray(pv) == pv.type \in {"PARAMETER_INTEGER_ARRAY", "PARAMETER_DOUBLE_ARRAY"}

Without(ov, key) == [k \in DOMAIN ov \ {key} |-> ov[k]]

Shortened(ov, key, n) ==
    [ov EXCEPT ![key] = [type |-> @.type, val |-> SubSeq(@.val, 1, n)]]

\* keys a launch file can hold besides the ones the build reads by name
ExtraEntries ==
    { S_type :> String(S_vicon),
      S_rigid_bodies :> String(S_zz),
      S_dynamics_configurations :> String(S_zz),
      S_marker_configurations :> String(S_zz),
      S_rigid_bodies_enabled :> Double(1),
      Key(S_marker_configurations, S_m1, S_points_extra) :> DoubleArray(<<5, 5, 5>>),
      Key(S_dynamics_configurations, S_slow, S_max_roll) :> Integer(3) }

\* a full file with one key missing, one array cut short, or one more key
DefectConfigs ==
         {Without(FullConfig, key) : key \in DOMAIN FullConfig}
    \cup {Shortened(FullConfig, key, 2) :
              key \in {k \in DOMAIN FullConfig : IsArray(FullConfig[k])}}
    \cup {Shortened(FullConfig, Key(S_rigid_bodies, S_cf1, S_initial_position), 0)}
    \cup {e @@ FullConfig : e \in ExtraEntries}

Configs == PlainConfigs \cup DefectConfigs

----------------------------------------------------------------------------
(* What the capture backend and the tracker can deliver *)

\* the markers move: the rows of frame f differ from those of every other frame
Points(f) == {<<f, 2, 3>>}

\* mocap->pointCloud() of frame f: up to MaxPoints rows of 3 floats
Clouds(f) == UNION {[1..n -> Points(f)] : n \in 0..MaxPoints}

\* mocap->rigidBodies(): name -> pose, the rotation a quaternion (x, y, z, w)
BackendBodies ==
    { EmptyMap,
      (S_cf1 :> [position |-> <<9, 9, 9>>, rotation |-> <<0, 0, 0, 1>>])
         @@ (S_zz :> [position |-> <<8, 8, 8>>, rotation |-> <<1, 0, 0, 0>>]) }

\* poses a successful fit of the tracker can yield
TrackerPoses ==
    { [translation |-> <<6, 5, 4>>, rotation |-> "yaw180"] }

\* Eigen::Quaternionf(transform.rotation()), as (x, y, z, w)
Quaternionf(rotation) ==
    IF rotation = "identity" THEN <<0, 0, 0, 1>> ELSE <<0, 0, 1, 0>>

\* node->now() reads the wall clock, which runs ahead of the monotonic one
WallEpoch == 100

NoStamp == [t |-> 0, cycle |-> 0 - 1]

----------------------------------------------------------------------------
(* ObjectTracker, lines 148-152 and 190: an external collaborator *)

\* the per-body state the tracker starts from
TrackerConstruct(objs) ==
    [k \in 1..Len(objs) |->
        [name                    |-> objs[k].name,
         transformation          |-> [translation |-> objs[k].initialTransformation,
                                      rotation    |-> "identity"],
         lastTransformationValid |-> FALSE,
         lastValidTime           |-> 0]]

\* the states tracker.update() can leave the bodies in at time t
TrackerUpdates(objs) ==
    { next \in [1..Len(objs) ->
                  {[transformation |-> p, lastTransformationValid |-> v]
                      : p \in TrackerPoses, v \in BOOLEAN}] :
        \A k \in 1..Len(objs) :
            ~next[k].lastTransformationValid =>
                next[k].transformation = CHOOSE p \in TrackerPoses : TRUE }

TrackerApply(objs, next, t) ==
    [k \in 1..Len(objs) |->
        IF next[k].lastTransformationValid
        THEN [name                    |-> objs[k].name,
              transformation          |-> next[k].transformation,
              lastTransformationValid |-> TRUE,
              lastValidTime           |-> t]
        ELSE [objs[k] EXCEPT !.lastTransformationValid = FALSE]]

----------------------------------------------------------------------------
(* Frame loop, lines 160-245 *)

\* (variant: the data buffer is grown but never shrunk)
CloudMessage_NeverShrinks(msg, pointcloud, stamp) ==
    LET need == Len(pointcloud) * 3 * 4
        size == IF msg.data.size > need THEN msg.data.size ELSE need
    IN  [msg EXCEPT !.stamp    = stamp,
                    !.width    = Len(pointcloud),
                    !.data     = [size |-> size, rows |-> pointcloud],
                    !.row_step = size]

\* lines 170-174: the message filled from the captured cloud
CloudMessage(msg, pointcloud, stamp) ==
    LET size == Len(pointcloud) * 3 * 4
    IN  [msg EXCEPT !.stamp    = stamp,
                    !.width    = Len(pointcloud),
                    !.data     = [size |-> size, rows |-> pointcloud],
                    !.row_step = size]

\* (variant: the cloud is not cleared before the rows are pushed)
MarkersOf_NoClear(old, pointcloud) ==
    old \o [k \in 1..Len(pointcloud) |->
              <<pointcloud[k][1], pointcloud[k][2], pointcloud[k][3]>>]

\* lines 184-189: markers->clear() and one push_back per row
MarkersOf(old, pointcloud) ==
    [k \in 1..Len(pointcloud) |-> <<pointcloud[k][1], pointcloud[k][2], pointcloud[k][3]>>]

\* lines 200-210: the transform of one backend body
BackendTransform(rigidBody, name, stamp) ==
    [stamp          |-> stamp,
     frame_id       |-> "world",
     child_frame_id |-> name,
     translation    |-> rigidBody.position,
     rotation       |-> rigidBody.rotation]

\* lines 192-211: clear() and one transform per backend body, in map order
BackendTransforms(old, bodies, stamp) ==
    LET order_ == SortedSeq(DOMAIN bodies)
    IN  [k \in 1..Len(order_) |-> BackendTransform(bodies[order_[k]], order_[k], stamp)]

\* lines 217-231: the transform of one tracked body
TrackerTransform(rigidBody, stamp) ==
    [stamp          |-> stamp,
     frame_id       |-> "world",
     child_frame_id |-> rigidBody.name,
     translation    |-> rigidBody.transformation.translation,
     rotation       |-> Quaternionf(rigidBody.transformation.rotation)]

\* (variant: the validity of the fit is not consulted)
EmitsTransform_Always(rigidBody) == TRUE

\* line 215: the branch taken for a tracked body
EmitsTransform(rigidBody) == rigidBody.lastTransformationValid

\* lines 213-238: the transforms appended for the tracked bodies
RECURSIVE TrackerTransforms(_, _, _)
TrackerTransforms(batch, objs, stamp) ==
    IF objs = <<>> THEN batch
    ELSE TrackerTransforms(
             IF EmitsTransform(Head(objs))
             THEN Append(batch, TrackerTransform(Head(objs), stamp))
             ELSE batch,
             Tail(objs), stamp)

\* lines 235-236: the warnings logged for the tracked bodies
RECURSIVE StalenessWarnings(_, _, _)
StalenessWarnings(log, objs, mono) ==
    IF objs = <<>> THEN log
    ELSE StalenessWarnings(
             IF EmitsTransform(Head(objs))
             THEN log
             ELSE Append(log, [name           |-> Head(objs).name,
                               elapsedSeconds |-> mono - Head(objs).lastValidTime]),
             Tail(objs), mono)

----------------------------------------------------------------------------
(* main() *)

StartupPcs == {"start", "build_dynamics", "build_markers", "build_bodies",
               "construct_tracker"}
LoopPcs == {"loop", "wait", "publish_cloud", "track", "merge_poses",
            "publish_transforms", "spin_some"}

\* lines 69-87: the message prepared before the loop
InitialCloudMessage ==
    [frame_id   |-> "world",
     height     |-> 1,
     point_step |-> 12,
     stamp      |-> NoStamp,
     width      |-> 0,
     data       |-> [size |-> 0, rows |-> <<>>],
     row_step   |-> 0]

InitLocals ==
    /\ dynamicsConfigurations = <<>>
    /\ dynamics_name_to_index = EmptyMap
    /\ i = 0
    /\ markerConfigurations = <<>>
    /\ marker_name_to_index = EmptyMap
    /\ objects = <<>>
    /\ trackerObjects = <<>>
    /\ ok = TRUE
    /\ frameId = 0
    /\ now = 0
    /\ mocapPointCloud = <<>>
    /\ mocapRigidBodies = EmptyMap
    /\ chrono_now = 0
    /\ time = NoStamp
    /\ timeSamples = 0
    /\ msgPointCloud = InitialCloudMessage
    /\ markers = <<>>
    /\ trackerInput = <<>>
    /\ transforms = <<>>
    /\ published = <<>>
    /\ sent = <<>>
    /\ warnings = <<>>

NoCall ==
    /\ pattern = <<>>
    /\ order = <<>>
    /\ names = [exc |-> FALSE, val |-> {}]
    /\ param_value = DoubleArray(<<>>)
    /\ vec = [exc |-> FALSE, val |-> <<>>]

Init ==
    /\ pc = "start"
    /\ parameter_overrides \in Configs
    /\ InitLocals
    /\ NoCall

Abort ==
    /\ pc' = "aborted"
    /\ UNCHANGED <<parameter_overrides, configVars, loopVars, callVars>>

\* lines 53-87: init, connect to the backend, prepare the publisher
Connect ==
    /\ pc = "start"
    /\ pc' = "build_dynamics"
    /\ UNCHANGED <<parameter_overrides, configVars, loopVars, callVars>>

\* line 64: MotionCapture::connect throws
ConnectFails ==
    /\ pc = "start"
    /\ Abort

\* lines 97-115
BuildDynamics ==
    /\ pc = "build_dynamics"
    /\ LET r == DynamicsBuild(parameter_overrides)
       IN  IF r.exc
           THEN Abort
           ELSE /\ pc' = "build_markers"
                /\ dynamicsConfigurations' = r.vec
                /\ dynamics_name_to_index' = r.map
                /\ i' = r.i
                /\ UNCHANGED <<parameter_overrides, markerConfigurations,
                               marker_name_to_index, objects, loopVars, callVars>>

\* lines 117-133
BuildMarkers ==
    /\ pc = "build_markers"
    /\ \E g \in Garbage :
         LET r == MarkerBuild(parameter_overrides, i, g)
         IN  IF r.exc
             THEN Abort
             ELSE \/ /\ pc' = "build_bodies"
                     /\ markerConfigurations' = r.vec
                     /\ marker_name_to_index' = r.map
                     /\ UNCHANGED <<parameter_overrides, dynamicsConfigurations,
                                    dynamics_name_to_index, i, objects, loopVars,
                                    callVars>>
                  \/ /\ r.ub         \* the out-of-bounds read faults
                     /\ Abort

\* lines 135-146
BuildRigidBodies ==
    /\ pc = "build_bodies"
    /\ \E g \in Garbage :
         LET r == BodyBuild(parameter_overrides, marker_name_to_index,
                            dynamics_name_to_index, g)
         IN  IF r.exc
             THEN Abort
             ELSE \/ /\ pc' = "construct_tracker"
                     /\ objects' = r.vec
                     /\ UNCHANGED <<parameter_overrides, dynamicsConfigurations,
                                    dynamics_name_to_index, i, markerConfigurations,
                                    marker_name_to_index, loopVars, callVars>>
                  \/ /\ r.ub         \* the out-of-bounds read faults
                     /\ Abort

\* lines 148-158
ConstructTracker ==
    /\ pc = "construct_tracker"
    /\ pc' = "loop"
    /\ trackerObjects' = TrackerConstruct(objects)
    /\ UNCHANGED <<parameter_overrides, configVars, ok, frameId, now,
                   mocapPointCloud, mocapRigidBodies, chrono_now, time,
                   timeSamples, msgPointCloud, markers, trackerInput, transforms,
                   published, sent, warnings, callVars>>

\* (variant: the loop never looks at the shutdown signal)
LoopCondition_Always == TRUE

\* line 160: rclcpp::ok(), the condition of the for statement
LoopCondition == ok

\* line 160: the loop condition; a new cycle starts with nothing published yet
LoopCheck ==
    /\ pc = "loop"
    /\ IF LoopCondition
       THEN /\ frameId < MaxFrames
            /\ pc' = "wait"
            /\ timeSamples' = 0
            /\ published' = <<>>
            /\ sent' = <<>>
            /\ warnings' = <<>>
       ELSE /\ pc' = "done"
            /\ UNCHANGED <<timeSamples, published, sent, warnings>>
    /\ UNCHANGED <<parameter_overrides, configVars, trackerObjects, ok, frameId,
                   now, mocapPointCloud, mocapRigidBodies, chrono_now, time,
                   msgPointCloud, markers, trackerInput, transforms, callVars>>

\* the stamp line 165 samples
SampleTime == [t |-> now + WallEpoch, cycle |-> frameId]

\* lines 163-165: the frame arrives and both clocks are sampled
WaitForNextFrame ==
    /\ pc = "wait"
    /\ pc' = "publish_cloud"
    /\ mocapPointCloud' \in Clouds(frameId)
    /\ mocapRigidBodies' \in BackendBodies
    /\ chrono_now' = now
    /\ time' = SampleTime
    /\ timeSamples' = timeSamples + 1
    /\ UNCHANGED <<parameter_overrides, configVars, trackerObjects, ok, frameId,
                   now, msgPointCloud, markers, trackerInput, transforms,
                   published, sent, warnings, callVars>>

\* (variant: a failed wait is retried from the head of the loop)
WaitFails_Retry ==
    /\ pc = "wait"
    /\ pc' = "loop"
    /\ UNCHANGED <<parameter_overrides, configVars, loopVars, callVars>>

\* line 163: waitForNextFrame throws
WaitFails ==
    /\ pc = "wait"
    /\ Abort

\* (variant: the tracker update is left out of the cycle)
PublishCloud_SkipsTracker ==
    /\ pc = "publish_cloud"
    /\ pc' = "merge_poses"
    /\ msgPointCloud' = CloudMessage(msgPointCloud, mocapPointCloud, time)
    /\ published' = Append(published, msgPointCloud')
    /\ UNCHANGED <<parameter_overrides, configVars, trackerObjects, ok, frameId,
                   now, mocapPointCloud, mocapRigidBodies, chrono_now, time,
                   timeSamples, markers, trackerInput, transforms, sent, warnings,
                   callVars>>

\* lines 167-176
PublishCloud ==
    /\ pc = "publish_cloud"
    /\ pc' = "track"
    /\ msgPointCloud' = CloudMessage(msgPointCloud, mocapPointCloud, time)
    /\ published' = Append(published, msgPointCloud')
    /\ UNCHANGED <<parameter_overrides, configVars, trackerObjects, ok, frameId,
                   now, mocapPointCloud, mocapRigidBodies, chrono_now, time,
                   timeSamples, markers, trackerInput, transforms, sent, warnings,
                   callVars>>

\* lines 184-190
Track ==
    /\ pc = "track"
    /\ pc' = "merge_poses"
    /\ markers' = MarkersOf(markers, mocapPointCloud)
    /\ trackerInput' = markers'
    /\ \E next \in TrackerUpdates(trackerObjects) :
         trackerObjects' = TrackerApply(trackerObjects, next, now)
    /\ UNCHANGED <<parameter_overrides, configVars, ok, frameId, now,
                   mocapPointCloud, mocapRigidBodies, chrono_now, time,
                   timeSamples, msgPointCloud, transforms, published, sent,
                   warnings, callVars>>

\* (variant: the elapsed time is taken from the wall-clock sample)
MergePoses_WallClockElapsed ==
    /\ pc = "merge_poses"
    /\ pc' = "publish_transforms"
    /\ transforms' = TrackerTransforms(
                         BackendTransforms(transforms, mocapRigidBodies, time),
                         trackerObjects, time)
    /\ warnings' = StalenessWarnings(warnings, trackerObjects, time.t)
    /\ UNCHANGED <<parameter_overrides, configVars, trackerObjects, ok, frameId,
                   now, mocapPointCloud, mocapRigidBodies, chrono_now, time,
                   timeSamples, msgPointCloud, markers, trackerInput, published,
                   sent, callVars>>

\* (variant: a backend body is left out when the tracker has a valid fit of
\* the same name)
MergePoses_TrackerWins ==
    /\ pc = "merge_poses"
    /\ pc' = "publish_transforms"
    /\ LET fitted == {trackerObjects[k].name : k \in
                        {j \in 1..Len(trackerObjects) :
                            trackerObjects[j].lastTransformationValid}}
           kept   == [n \in DOMAIN mocapRigidBodies \ fitted |-> mocapRigidBodies[n]]
       IN  transforms' = TrackerTransforms(
                             BackendTransforms(transforms, kept, time),
                             trackerObjects, time)
    /\ warnings' = StalenessWarnings(warnings, trackerObjects, chrono_now)
    /\ UNCHANGED <<parameter_overrides, configVars, trackerObjects, ok, frameId,
                   now, mocapPointCloud, mocapRigidBodies, chrono_now, time,
                   timeSamples, msgPointCloud, markers, trackerInput, published,
                   sent, callVars>>

\* (variant: every tracker transform is stamped with a fresh clock reading)
MergePoses_FreshStamp ==
    /\ pc = "merge_poses"
    /\ pc' = "publish_transforms"
    /\ transforms' = TrackerTransforms(
                         BackendTransforms(transforms, mocapRigidBodies, time),
                         trackerObjects, SampleTime)
    /\ warnings' = StalenessWarnings(warnings, trackerObjects, chrono_now)
    /\ UNCHANGED <<parameter_overrides, configVars, trackerObjects, ok, frameId,
                   now, mocapPointCloud, mocapRigidBodies, chrono_now, time,
                   timeSamples, msgPointCloud, markers, trackerInput, published,
                   sent, callVars>>

\* lines 192-238
MergePoses ==
    /\ pc = "merge_poses"
    /\ pc' = "publish_transforms"
    /\ transforms' = TrackerTransforms(
                         BackendTransforms(transforms, mocapRigidBodies, time),
                         trackerObjects, time)
    /\ warnings' = StalenessWarnings(warnings, trackerObjects, chrono_now)
    /\ UNCHANGED <<parameter_overrides, configVars, trackerObjects, ok, frameId,
                   now, mocapPointCloud, mocapRigidBodies, chrono_now, time,
                   timeSamples, msgPointCloud, markers, trackerInput, published,
                   sent, callVars>>

\* (variant: the batch is sent unconditionally)
SendsBatch_Always(batch) == TRUE

\* line 240: the condition under which the batch is handed to the broadcaster
SendsBatch(batch) == Len(batch) > 0

\* lines 240-242
PublishTransforms ==
    /\ pc = "publish_transforms"
    /\ pc' = "spin_some"
    /\ sent' = IF SendsBatch(transforms) THEN Append(sent, transforms) ELSE sent
    /\ UNCHANGED <<parameter_overrides, configVars, trackerObjects, ok, frameId,
                   now, mocapPointCloud, mocapRigidBodies, chrono_now, time,
                   timeSamples, msgPointCloud, markers, trackerInput, transforms,
                   published, warnings, callVars>>

\* lines 244 and 160: spin_some, then ++frameId
SpinSome ==
    /\ pc = "spin_some"
    /\ pc' = "loop"
    /\ frameId' = frameId + 1
    /\ UNCHANGED <<parameter_overrides, configVars, trackerObjects, ok, now,
                   mocapPointCloud, mocapRigidBodies, chrono_now, time,
                   timeSamples, msgPointCloud, markers, trackerInput, transforms,
                   published, sent, warnings, callVars>>

\* the shutdown signal: rclcpp::ok() turns false
Shutdown ==
    /\ pc \in StartupPcs \cup LoopPcs
    /\ ok
    /\ ok' = FALSE
    /\ UNCHANGED <<pc, parameter_overrides, configVars, trackerObjects, frameId,
                   now, mocapPointCloud, mocapRigidBodies, chrono_now, time,
                   timeSamples, msgPointCloud, markers, trackerInput, transforms,
                   published, sent, warnings, callVars>>

\* real time passes while the loop runs
Tick ==
    /\ pc \in LoopPcs
    /\ now < MaxClock
    /\ now' = now + 1
    /\ UNCHANGED <<pc, parameter_overrides, configVars, trackerObjects, ok,
                   frameId, mocapPointCloud, mocapRigidBodies, chrono_now, time,
                   timeSamples, msgPointCloud, markers, trackerInput, transforms,
                   published, sent, warnings, callVars>>

Next ==
    \/ Connect
    \/ ConnectFails
    \/ BuildDynamics
    \/ BuildMarkers
    \/ BuildRigidBodies
    \/ ConstructTracker
    \/ LoopCheck
    \/ WaitForNextFrame
    \/ WaitFails
    \/ PublishCloud
    \/ Track
    \/ MergePoses
    \/ PublishTransforms
    \/ SpinSome
    \/ Shutdown
    \/ Tick

Spec == Init /\ [][Next]_vars

\* lines 192-238 seen from the program counter: the step MergePoses takes
MergeStep ==
    /\ pc = "merge_poses"
    /\ pc' = "publish_transforms"

\* one statement of the frame loop runs to completion
LoopStep ==
    \/ LoopCheck
    \/ WaitForNextFrame
    \/ PublishCloud
    \/ Track
    \/ MergeStep
    \/ PublishTransforms
    \/ SpinSome

\* main() is a sequential program that keeps running: a statement of the
\* loop that can execute does, and the backend delivers the frame a wait is
\* blocked on
LoopFairness == WF_pc(LoopStep)

\* the loop runs the same statements whatever was configured: one
\* configuration that tracks a body and one that tracks none
LoopConfigs == {FullConfig, Config({}, {}, EmptyMap)}

InitLoop ==
    /\ Init
    /\ parameter_overrides \in LoopConfigs

FairSpec == InitLoop /\ [][Next]_vars /\ LoopFairness

----------------------------------------------------------------------------
(* extract_names called on its own, on any small map and pattern *)

KeyChars == {"a", "b", "."}

StringsUpTo(n) == UNION {[1..m -> KeyChars] : m \in 1..n}

\* a map of up to MaxKeys distinct keys, visited in any order
InitExtractNames ==
    /\ pc = "call_extract_names"
    /\ \E n \in 0..MaxKeys :
         \E s \in [1..n -> StringsUpTo(MaxKeyLen)] :
            /\ Cardinality(Range(s)) = n
            /\ parameter_overrides = [k \in Range(s) |-> Double(0)]
            /\ order = s
    /\ pattern \in StringsUpTo(MaxPatLen)
    /\ names = [exc |-> FALSE, val |-> {}]
    /\ param_value = DoubleArray(<<>>)
    /\ vec = [exc |-> FALSE, val |-> <<>>]
    /\ InitLocals

CallExtractNames ==
    /\ pc = "call_extract_names"
    /\ pc' = "extract_names_returned"
    /\ names' = extract_names(order, pattern)
    /\ UNCHANGED <<parameter_overrides, configVars, loopVars, pattern, order,
                   param_value, vec>>

NextExtractNames == CallExtractNames

SpecExtractNames == InitExtractNames /\ [][NextExtractNames]_vars

----------------------------------------------------------------------------
(* get_vec called on its own *)

\* 0, 1, -1, 2^31 - 1, 2^31, -2^31, -2^31 - 1, 2^32, 2^63 - 1, -2^63
Int64Samples ==
    { <<0, 0, 0, 0>>, <<0, 0, 0, 1>>, <<65535, 65535, 65535, 65535>>,
      <<0, 0, 32767, 65535>>, <<0, 0, 32768, 0>>, <<65535, 65535, 32768, 0>>,
      <<65535, 65535, 32767, 65535>>, <<0, 1, 0, 0>>,
      <<32767, 65535, 65535, 65535>>, <<32768, 0, 0, 0>> }

DoubleSamples == {0 - 3, 0, 16777217}

InitGetVec ==
    /\ pc = "call_get_vec"
    /\ \E n \in 0..MaxVecLen :
         \/ \E v \in [1..n -> Int64Samples] :
              param_value = [type |-> "PARAMETER_INTEGER_ARRAY", val |-> v]
         \/ \E v \in [1..n -> DoubleSamples] : param_value = DoubleArray(v)
    /\ vec = [exc |-> FALSE, val |-> <<>>]
    /\ parameter_overrides = EmptyMap
    /\ pattern = <<>>
    /\ order = <<>>
    /\ names = [exc |-> FALSE, val |-> {}]
    /\ InitLocals

CallGetVec ==
    /\ pc = "call_get_vec"
    /\ pc' = "get_vec_returned"
    /\ vec' = get_vec(param_value)
    /\ UNCHANGED <<parameter_overrides, configVars, loopVars, pattern, order,
                   names, param_value>>

NextGetVec == CallGetVec

SpecGetVec == InitGetVec /\ [][NextGetVec]_vars

----------------------------------------------------------------------------
(* Claims *)

StartsWith(s, q) == Len(s) >= Len(q) /\ SubSeq(s, 1, Len(q)) = q

\* the segment of key between prefix + "." and the next "." or the end
ChildToken(key, prefix) ==
    LET rest == SubSeq(key, Len(prefix) + 2, Len(key))
        dots == {j \in 1..Len(rest) : rest[j] = "."}
    IN  IF dots = {} THEN rest
        ELSE SubSeq(rest, 1, (CHOOSE j \in dots : \A d \in dots : j <= d) - 1)

ChildTokens(K, prefix) ==
    {ChildToken(key, prefix) : key \in {k \in K : StartsWith(k, prefix \o DOT)}}

\* C2: extract_names returns exactly the distinct immediate child tokens of
\* the keys that begin with prefix + "."; every other key contributes
\* nothing, whatever the order in which the keys are visited.
C2_ExtractNamesExact ==
    pc = "extract_names_returned" =>
        /\ ~names.exc
        /\ names.val = ChildTokens(DOMAIN parameter_overrides, pattern)

\* C3: on an integer array get_vec returns a sequence of the same length
\* whose elements hold the same numbers as the 64-bit inputs.
C3_GetVecPreservesIntegers ==
    (pc = "get_vec_returned" /\ param_value.type = "PARAMETER_INTEGER_ARRAY") =>
        /\ ~vec.exc
        /\ Len(vec.val) = Len(param_value.val)
        /\ \A k \in 1..Len(vec.val) : SameNumber(vec.val[k], param_value.val[k])

----------------------------------------------------------------------------
(* The configuration as the file declares it *)

Keys == DOMAIN parameter_overrides

DeclaredDynamics == ChildTokens(Keys, S_dynamics_configurations)
DeclaredMarkers == ChildTokens(Keys, S_marker_configurations)
DeclaredBodies == ChildTokens(Keys, S_rigid_bodies)

\* position of a name in a collection filled in ascending name order
Rank(name, S) == Cardinality({y \in S : StrLess(y, name)})

\* the name a rigid body's reference parameter holds
Reference(body, field) == parameter_overrides[Key(S_rigid_bodies, body, field)].val

HasReference(body, field) ==
    /\ Key(S_rigid_bodies, body, field) \in Keys
    /\ parameter_overrides[Key(S_rigid_bodies, body, field)].type = "PARAMETER_STRING"

\* the collections are built and handed on
ConfigurationBuilt == pc \in {"construct_tracker", "done"} \cup LoopPcs

\* the number an array element holds, whichever array type stores it
NumberOf(pv, k) ==
    IF pv.type = "PARAMETER_INTEGER_ARRAY"
    THEN CHOOSE d \in (0 - 16)..16 : SameNumber(d, pv.val[k])
    ELSE pv.val[k]

\* C1: after the build the marker index of every rigid body that names a
\* declared template is the position of that template in the template
\* collection.
C1_MarkerIndexIsPosition ==
    ConfigurationBuilt =>
        \A k \in 1..Len(objects) :
            (/\ HasReference(objects[k].name, S_marker)
             /\ Reference(objects[k].name, S_marker) \in DeclaredMarkers)
            => objects[k].markerConfigurationIdx =
                   Rank(Reference(objects[k].name, S_marker), DeclaredMarkers)

\* some rigid body names a profile or a template that is not declared
UnresolvedReference ==
    \E b \in DeclaredBodies :
        \/ HasReference(b, S_marker) /\ Reference(b, S_marker) \notin DeclaredMarkers
        \/ HasReference(b, S_dynamics) /\ Reference(b, S_dynamics) \notin DeclaredDynamics

\* C4: the dynamics index of every rigid body that names a declared profile
\* is the index at which that profile's values are stored, and a reference
\* to an undeclared profile or template stops the start-up before the loop.
C4_DynamicsIndexResolves ==
    /\ pc \in {"construct_tracker", "loop"} =>
          \A k \in 1..Len(objects) :
              (/\ HasReference(objects[k].name, S_dynamics)
               /\ Reference(objects[k].name, S_dynamics) \in DeclaredDynamics)
              => /\ objects[k].dynamicsConfigurationIdx < Len(dynamicsConfigurations)
                 /\ dynamicsConfigurations[objects[k].dynamicsConfigurationIdx + 1] =
                        DynamicsConfiguration(parameter_overrides,
                                              Reference(objects[k].name, S_dynamics))
    /\ pc \in {"construct_tracker", "loop"} => ~UnresolvedReference

\* a body that names `slow` is resolved to the second slot although only
\* the name order, not the file, puts `slow` there
C4_Witness ==
    /\ pc = "loop"
    /\ DeclaredDynamics = {S_slow, S_fast}
    /\ \E k \in 1..Len(objects) :
          /\ Reference(objects[k].name, S_dynamics) = S_slow
          /\ objects[k].dynamicsConfigurationIdx = 1
          /\ dynamicsConfigurations[2].maxXVelocity = 1
    /\ \E k \in 1..Len(objects) :
          /\ Reference(objects[k].name, S_dynamics) = S_fast
          /\ objects[k].dynamicsConfigurationIdx = 0

----------------------------------------------------------------------------
(* The frame loop *)

\* the transforms of the batch that stem from the tracker: those after the
\* backend's
TrackerPart(batch) ==
    SubSeq(batch, Cardinality(DOMAIN mocapRigidBodies) + 1, Len(batch))

\* the batch of the cycle is complete
Merged == pc \in {"publish_transforms", "spin_some"}

\* C5: a tracked body with an invalid fit has no tracker-derived transform
\* in the cycle's batch, one with a valid fit has exactly one, with the
\* body's name as child frame, parent "world" and the estimated pose.
C5_TrackerTransformIffValid ==
    Merged =>
        \A k \in 1..Len(trackerObjects) :
            LET body == trackerObjects[k]
                part == TrackerPart(transforms)
                mine == {j \in 1..Len(part) : part[j].child_frame_id = body.name}
            IN  IF body.lastTransformationValid
                THEN /\ Cardinality(mine) = 1
                     /\ \A j \in mine :
                          /\ part[j].frame_id = "world"
                          /\ part[j].translation = body.transformation.translation
                          /\ part[j].rotation = Quaternionf(body.transformation.rotation)
                ELSE mine = {}

C5_Witness ==
    /\ pc = "spin_some"
    /\ \E k \in 1..Len(trackerObjects) : trackerObjects[k].lastTransformationValid
    /\ \E k \in 1..Len(trackerObjects) : ~trackerObjects[k].lastTransformationValid
    /\ Len(TrackerPart(transforms)) = 1
    /\ Len(sent) = 1

\* every stamp a batch carries
BatchStamps(batch) == {batch[k].stamp : k \in 1..Len(batch)}

\* C6: the wall clock is sampled once per cycle, when the wait returns, and
\* the cloud message and every transform of the cycle carry that sample.
C6_OneStampPerCycle ==
    /\ pc \in LoopPcs \ {"loop", "wait"} =>
          /\ timeSamples = 1
          /\ time.cycle = frameId
    /\ pc = "wait" => timeSamples = 0
    /\ \A k \in 1..Len(published) : published[k].stamp = time
    /\ \A k \in 1..Len(sent) : BatchStamps(sent[k]) \subseteq {time}
    /\ Merged => BatchStamps(transforms) \subseteq {time}

\* second cycle, the clock has moved on since the sample, and the cloud, a
\* backend transform and a tracker transform are out
C6_Witness ==
    /\ pc = "spin_some"
    /\ frameId = 1
    /\ now + WallEpoch > time.t
    /\ Len(published) = 1
    /\ Len(sent) = 1
    /\ Len(TrackerPart(sent[1])) >= 1
    /\ Len(sent[1]) > Len(TrackerPart(sent[1]))

\* C7: every cycle publishes one cloud message, whose width is the number of
\* points captured in the cycle and whose data length and row_step are
\* width * 12, whatever the earlier clouds were.
C7_CloudMessageMatchesFrame ==
    /\ pc \in {"wait", "publish_cloud"} => published = <<>>
    /\ pc \in {"track", "merge_poses", "publish_transforms", "spin_some"} =>
          /\ Len(published) = 1
          /\ published[1].width = Len(mocapPointCloud)
          /\ published[1].data.size = published[1].width * 12
          /\ published[1].row_step = published[1].data.size
          /\ published[1].data.rows = mocapPointCloud

\* an empty cloud published right after a cycle that had points
C7_Witness ==
    /\ pc = "track"
    /\ frameId = 1
    /\ markers # <<>>
    /\ mocapPointCloud = <<>>
    /\ Len(published) = 1
    /\ published[1].width = 0

\* nothing to report: no backend body, no tracked body with a valid fit
NoPoses ==
    /\ DOMAIN mocapRigidBodies = {}
    /\ \A k \in 1..Len(trackerObjects) : ~trackerObjects[k].lastTransformationValid

\* C10: the batch of a cycle is sent at most once: once, whole, when it is
\* not empty, and not at all when there is no backend body and no valid fit.
C10_BatchSentOnceIfNonEmpty ==
    /\ Len(sent) <= 1
    /\ pc \in {"wait", "publish_cloud", "track", "merge_poses", "publish_transforms"}
          => sent = <<>>
    /\ pc = "spin_some" =>
          IF NoPoses THEN sent = <<>>
          ELSE /\ sent = <<transforms>>
               /\ transforms # <<>>

\* a cycle with a tracked body, nothing valid and nothing from the backend,
\* after a cycle whose batch was not empty
C10_Witness ==
    /\ pc = "spin_some"
    /\ frameId = 1
    /\ NoPoses
    /\ Len(trackerObjects) >= 1
    /\ transforms = <<>>
    /\ sent = <<>>
    /\ \E k \in 1..Len(trackerObjects) : trackerObjects[k].lastValidTime > 0

----------------------------------------------------------------------------
(* Start-up failures and the marker templates *)

RequiredKeys ==
         {Key(S_dynamics_configurations, n, f) :
              n \in DeclaredDynamics,
              f \in {S_max_velocity, S_max_angular_velocity, S_max_roll,
                     S_max_pitch, S_max_fitness_score}}
    \cup {Key(S_marker_configurations, n, S_offset) : n \in DeclaredMarkers}
    \cup {Key(S_rigid_bodies, b, f) :
              b \in DeclaredBodies, f \in {S_initial_position, S_marker, S_dynamics}}

\* the keys marker_configurations.<name>.points.<idx>
PointIdxKeys(name) ==
    {k \in Keys : StartsWith(k, Key(S_marker_configurations, name, S_points) \o DOT)}

\* the keys that hold a 3-element numeric array
ArrayKeys ==
         {Key(S_dynamics_configurations, n, f) :
              n \in DeclaredDynamics, f \in {S_max_velocity, S_max_angular_velocity}}
    \cup {Key(S_marker_configurations, n, S_offset) : n \in DeclaredMarkers}
    \cup UNION {PointIdxKeys(n) : n \in DeclaredMarkers}
    \cup {Key(S_rigid_bodies, b, S_initial_position) : b \in DeclaredBodies}

MissingRequiredKey == \E k \in RequiredKeys : k \notin Keys

MalformedArray ==
    \E k \in ArrayKeys \cap Keys :
        IsArray(parameter_overrides[k]) /\ Len(parameter_overrides[k].val) < 3

\* C8: with an unresolved reference, a missing required key or a numeric
\* array of fewer than 3 elements the process aborts during start-up: no
\* tracker is constructed, no frame is waited for, nothing is published.
C8_MalformedConfigurationAborts ==
    (UnresolvedReference \/ MissingRequiredKey \/ MalformedArray) =>
        /\ pc \in {"start", "build_dynamics", "build_markers", "build_bodies", "aborted"}
        /\ trackerObjects = <<>>
        /\ published = <<>>
        /\ sent = <<>>

\* the point a points.<idx> key declares, moved by the template's offset
OffsetPoint(name, key) ==
    LET offset == parameter_overrides[Key(S_marker_configurations, name, S_offset)]
        point  == parameter_overrides[key]
    IN  <<NumberOf(point, 1) + NumberOf(offset, 1),
          NumberOf(point, 2) + NumberOf(offset, 2),
          NumberOf(point, 3) + NumberOf(offset, 3)>>

\* C9: the template built for a name holds one point per points.<idx> key of
\* that name and no other point, each the declared point plus the offset.
\* (Stated for files whose arrays all have their 3 elements.)
C9_TemplateHoldsDeclaredPoints ==
    (pc \in {"build_bodies", "construct_tracker"} /\ ~MalformedArray) =>
        \A name \in DeclaredMarkers :
            LET template == markerConfigurations[Rank(name, DeclaredMarkers) + 1]
                keys     == PointIdxKeys(name)
            IN  /\ Len(template) = Cardinality(keys)
                /\ \E s \in [1..Len(template) -> keys] :
                      /\ Range(s) = keys
                      /\ \A j \in 1..Len(template) : template[j] = OffsetPoint(name, s[j])

----------------------------------------------------------------------------
(* The frame loop: failure, shutdown, order *)

\* what a cycle has produced so far
CycleOutput == <<published, sent, warnings, trackerObjects, trackerInput,
                 timeSamples, msgPointCloud, transforms, markers>>

\* C11: a frame wait that fails ends the loop.  A step that leaves the wait
\* without a frame leads to the terminated process and nowhere else (no
\* retry); in the terminated process nothing has been published, sent or
\* given to the tracker since the cycle began, and no step follows: no
\* publish, no tracker update, no batch, no further wait.
C11_FailedWaitEndsLoop ==
    /\ [][(pc = "wait" /\ pc' \notin {"wait", "publish_cloud"})
             => (pc' = "aborted" /\ UNCHANGED CycleOutput)]_vars
    /\ [][pc = "aborted" => (pc' = "aborted" /\ UNCHANGED CycleOutput)]_vars
    /\ [](pc = "aborted" => (published = <<>> /\ sent = <<>> /\ timeSamples = 0))

\* the wait of the second cycle has failed: the first cycle ran in full, the
\* second one produced nothing
C11_Witness ==
    /\ pc = "aborted"
    /\ frameId = 1
    /\ msgPointCloud.stamp.cycle = 0
    /\ published = <<>>
    /\ sent = <<>>

\* the cycle that has just ended ran in full: one cloud published, the
\* tracker updated with that cloud, the batch sent if it had any transform
CycleComplete ==
    /\ Len(published) = 1
    /\ published[1].data.rows = mocapPointCloud
    /\ trackerInput = MarkersOf(<<>>, mocapPointCloud)
    /\ sent = IF transforms = <<>> THEN <<>> ELSE <<transforms>>

\* C12: the shutdown signal is looked at once per cycle, at the head of the
\* loop.  Once it is set no wait is started; no other step of the cycle
\* reacts to it, so the loop ends at the head only; a wait that is in flight
\* when the signal comes is not interrupted, and when the backend delivers
\* the frame the cycle runs in full and then the loop ends.
C12_ShutdownAtCycleBoundary ==
    /\ [][(~ok /\ pc' = "wait") => pc = "wait"]_vars
    /\ [][pc' = "done" => (pc \in {"loop", "done"} /\ ~ok)]_vars
    /\ [][(~ok /\ pc = "loop") => pc' \in {"loop", "done"}]_vars
    /\ [](pc = "done" /\ frameId > 0 => CycleComplete)
    /\ ((pc \in LoopPcs /\ ~ok) ~> pc \in {"done", "aborted"})

\* shutdown was signalled during the wait of the second cycle; the frame
\* came, the cycle ran in full and the loop has ended
C12_Witness ==
    /\ pc = "done"
    /\ ~ok
    /\ frameId = 2
    /\ time.cycle = 1
    /\ CycleComplete
    /\ Len(sent) = 1

\* the steps of one cycle, in the order of the source
CycleOrder == <<"loop", "wait", "publish_cloud", "track", "merge_poses",
                "publish_transforms", "spin_some">>

\* the program counter moves to the next step of the cycle, or leaves the loop
\* at its head (shutdown) or at the wait (failure)
OrderedStep ==
    \/ \E k \in 1..Len(CycleOrder) :
          /\ pc = CycleOrder[k]
          /\ pc' = CycleOrder[(k % Len(CycleOrder)) + 1]
    \/ pc = "loop" /\ pc' = "done"
    \/ pc = "wait" /\ pc' = "aborted"

\* C13: every cycle runs frame wait, cloud publish, tracker update, pose
\* merge, batch publish, callback processing, in this order.  Each effect
\* happens in its own step only: the frame is taken by the wait, the cloud
\* is published after it, the tracker is updated after the publish, the
\* transforms are built after the update, from the bodies it left, and sent
\* after that; when the head of the loop is reached again, and so before the
\* next wait, the publishes and the update of the cycle are complete.
C13_CycleOrder ==
    /\ [][(pc \in LoopPcs /\ pc' # pc) => OrderedStep]_vars
    /\ [][mocapPointCloud' # mocapPointCloud
             => (pc = "wait" /\ pc' = "publish_cloud")]_vars
    /\ [][(published' # published /\ published' # <<>>)
             => (pc = "publish_cloud" /\ pc' = "track")]_vars
    /\ [][(trackerInput' # trackerInput \/ (pc \in LoopPcs /\ trackerObjects' # trackerObjects))
             => (pc = "track" /\ pc' = "merge_poses" /\ Len(published) = 1)]_vars
    /\ [][transforms' # transforms
             => (/\ pc = "merge_poses"
                 /\ pc' = "publish_transforms"
                 /\ trackerInput = MarkersOf(<<>>, mocapPointCloud)
                 /\ TrackerPart(transforms')
                      = TrackerTransforms(<<>>, trackerObjects, time))]_vars
    /\ [][(sent' # sent /\ sent' # <<>>)
             => (pc = "publish_transforms" /\ pc' = "spin_some")]_vars
    /\ [][(pc' = "wait" /\ pc # "wait")
             => (pc = "loop" /\ (frameId > 0 => CycleComplete))]_vars

\* the second cycle has run in full and the loop is at its head again
C13_Witness ==
    /\ pc = "loop"
    /\ ok
    /\ frameId = 2
    /\ time.cycle = 1
    /\ CycleComplete
    /\ Len(sent) = 1
    /\ Len(trackerInput) = 1

----------------------------------------------------------------------------
(* The transform batch and the warnings of one cycle *)

\* positions of the batch that hold a given transform, or a given child name
PositionsOf(batch, t) == {k \in 1..Len(batch) : batch[k] = t}
PositionsNamed(batch, name) == {k \in 1..Len(batch) : batch[k].child_frame_id = name}

\* tracked bodies with a valid fit
ValidFits == {k \in 1..Len(trackerObjects) : trackerObjects[k].lastTransformationValid}

\* C14: once the poses are merged, every body the backend reported has
\* exactly one transform in the batch built from its reported pose, whether
\* or not the tracker has a body of that name and whatever that body's
\* validity; a name the tracker has a valid fit for as well appears twice,
\* the backend transform before the tracker one.
C14_BackendBodiesAlwaysEmitted ==
    Merged =>
        \A name \in DOMAIN mocapRigidBodies :
            LET fromBackend == BackendTransform(mocapRigidBodies[name], name, time)
                fits        == {k \in ValidFits : trackerObjects[k].name = name}
            IN  /\ Cardinality(PositionsOf(transforms, fromBackend)) = 1
                /\ Cardinality(PositionsNamed(transforms, name))
                      = 1 + Cardinality(fits)
                /\ \A k \in fits :
                      \E a, b \in PositionsNamed(transforms, name) :
                          /\ a < b
                          /\ transforms[a] = fromBackend
                          /\ transforms[b] = TrackerTransform(trackerObjects[k], time)

\* the backend reports cf1 and zz, the tracker has a valid fit of cf1: the
\* batch holds cf1 twice
C14_Witness ==
    /\ Merged
    /\ S_cf1 \in DOMAIN mocapRigidBodies
    /\ S_zz \in DOMAIN mocapRigidBodies
    /\ \E k \in ValidFits : trackerObjects[k].name = S_cf1
    /\ Cardinality(PositionsNamed(transforms, S_cf1)) = 2
    /\ Cardinality(PositionsNamed(transforms, S_zz)) = 1

\* the tracker has been updated in the current cycle
Tracked == pc \in {"merge_poses", "publish_transforms", "spin_some"}

\* C15: nothing of an earlier cycle is left in the per-cycle state.  The
\* cloud the tracker was given in a cycle holds exactly the points captured
\* in that cycle; the merged batch holds as many transforms as the backend
\* reported bodies plus the tracked bodies with a valid fit, every one
\* stamped in this cycle; and what is sent is that batch.
C15_NothingCarriedOver ==
    /\ Tracked =>
          /\ Len(trackerInput) = Len(mocapPointCloud)
          /\ \A k \in 1..Len(mocapPointCloud) :
                /\ trackerInput[k] = mocapPointCloud[k]
                /\ mocapPointCloud[k] \in Points(frameId)
          /\ markers = trackerInput
    /\ Merged =>
          /\ Len(transforms)
                = Cardinality(DOMAIN mocapRigidBodies) + Cardinality(ValidFits)
          /\ \A k \in 1..Len(transforms) : transforms[k].stamp.cycle = frameId
    /\ pc = "spin_some" =>
          \A k \in 1..Len(sent) :
              /\ sent[k] = transforms
              /\ Len(sent[k])
                    = Cardinality(DOMAIN mocapRigidBodies) + Cardinality(ValidFits)

\* in the second cycle the frame is empty and no body has a pose, after a
\* first cycle in which a tracked body had a valid fit and so a transform:
\* the cloud and the batch of the second cycle are empty
C15_Witness ==
    /\ pc = "spin_some"
    /\ frameId = 1
    /\ mocapPointCloud = <<>>
    /\ trackerInput = <<>>
    /\ mocapRigidBodies = EmptyMap
    /\ transforms = <<>>
    /\ sent = <<>>
    /\ \E k \in 1..Len(trackerObjects) :
          /\ ~trackerObjects[k].lastTransformationValid
          /\ trackerObjects[k].lastValidTime = 1

\* the warnings of the cycle that name a given body
WarningsNamed(name) == {w \in 1..Len(warnings) : warnings[w].name = name}

\* C16: once the poses are merged, the cycle has logged exactly one warning
\* for every tracked body whose fit is invalid and none for a body whose fit
\* is valid; the elapsed time of a warning is the monotonic sample of this
\* cycle minus the time of that body's last valid fit.  The warnings depend
\* on the bodies as the tracker left them in this cycle and on nothing else.
C16_OneWarningPerInvalidBody ==
    Merged =>
        /\ Len(warnings) = Len(trackerObjects) - Cardinality(ValidFits)
        /\ \A k \in 1..Len(trackerObjects) :
              LET body == trackerObjects[k]
              IN  IF body.lastTransformationValid
                  THEN WarningsNamed(body.name) = {}
                  ELSE /\ Cardinality(WarningsNamed(body.name)) = 1
                       /\ \A w \in WarningsNamed(body.name) :
                             warnings[w].elapsedSeconds
                                = chrono_now - body.lastValidTime

\* in the second cycle, sampled at time 1, one of two tracked bodies has a
\* valid fit and the other has none since time 0: one warning, of 1 second
C16_Witness ==
    /\ Merged
    /\ frameId = 1
    /\ Len(trackerObjects) = 2
    /\ Cardinality(ValidFits) = 1
    /\ Len(warnings) = 1
    /\ warnings[1].elapsedSeconds = 1

----------------------------------------------------------------------------
(* A key that is exactly a prefix *)

\* the prefixes main() passes to extract_names, with the step that makes the
\* call
PrefixCalls ==
    (S_dynamics_configurations :> "build_dynamics")
        @@ (S_marker_configurations :> "build_markers")
        @@ (S_rigid_bodies :> "build_bodies")

StartupOrder == <<"start", "build_dynamics", "build_markers", "build_bodies",
                  "construct_tracker">>

\* main() has not gone past the given step of the start-up
NotPast(step) ==
    \/ pc = "aborted"
    \/ \E a, b \in 1..Len(StartupOrder) :
          /\ StartupOrder[a] = pc
          /\ StartupOrder[b] = step
          /\ a <= b

\* C17: when the overrides hold a key that is exactly a prefix, the call of
\* extract_names for that prefix selects the key, finds the start position
\* past its end, and fails with the out-of-range error of substr instead of
\* returning names; main() never gets past the step that makes the call, so
\* the frame loop is not entered.
C17_PrefixKeyAbortsStartup ==
    \A prefix \in DOMAIN PrefixCalls :
        prefix \in DOMAIN parameter_overrides =>
            /\ extract_names_matches(prefix, prefix)
            /\ substr_throws(prefix, Len(prefix) + 1)
            /\ extract_names(SortedSeq(DOMAIN parameter_overrides), prefix).exc
            /\ NotPast(PrefixCalls[prefix])

\* the file holds the key "dynamics_configurations": the first call of
\* extract_names has failed and start-up has ended with nothing built
C17_Witness ==
    /\ S_dynamics_configurations \in DOMAIN parameter_overrides
    /\ pc = "aborted"
    /\ dynamicsConfigurations = <<>>
    /\ dynamics_name_to_index = EmptyMap
    /\ objects = <<>>

====
